---- MODULE Spec2Model ----
(***************************************************************************)
(* A model of the local library scanner of euterpe:                        *)
(*   src/src/library/local_library_scan.go  (LocalLibrary.Scan, scanPath)  *)
(* Scan() callers, the walker goroutines they start, the RWMutex           *)
(* waitScanLock, the WaitGroup walkWG, the watcher and the catalog;        *)
(* of the catalog's clients (AddMedia calls, watcher events, clean-up      *)
(* passes, searches); and of the web server's start and stop:              *)
(*   src/src/webserver/webserver.go  (Server.Serve, Stop, Wait)            *)
(***************************************************************************)
EXTENDS Integers, Sequences, FiniteSets, Bags, TLC

\* Number of goroutines that may call Scan() on the same library.
NumScans == 2

\* Largest number of filesystem entries under one root (the root included)
\* when every throttling configuration is tried.
MaxEntries == 3

\* Largest number of entries under one root when the throttling is on.
MaxDeepEntries == 4

\* Largest number of track rows in a catalog handed to cleanUpDatabase.
MaxTrackRows == 3

\* Largest number of AddMedia calls each caller makes, and of clean-up runs,
\* when the catalog's clients run side by side.
MaxCalls == 1

\* Largest number of entries under each of two roots walked side by side.
MaxPairEntries == 2
\* The length of a Search query goes up to MaxQueryLen.
MaxQueryLen == 2
\* The clients of the web server make up to MaxServerCalls calls in all.
MaxServerCalls == 4

Scans == 1..NumScans

NoScan == 0

VARIABLES
    paths,            \* lib.paths: the configured roots, in order
    fs,               \* the directory tree on disk under each root
    tags,             \* what the metadata extractor reads from each entry
    LibraryFastScan,  \* the package-level fast mode flag
    ScanConfig,       \* lib.ScanConfig
    waitScanLock,     \* lib.waitScanLock (sync.RWMutex)
    walkWG,           \* lib.walkWG (sync.WaitGroup): its counter
    watch,            \* lib.watch: "nil" or "active"
    watched,          \* the directories registered with the watcher
    tracks,           \* the catalog: the rows of table tracks (a bag)
    albums,           \* the catalog: the rows of table albums (a bag)
    artists,          \* the catalog: the rows of table artists (a bag)
    pc,               \* where each Scan() call is
    spawnIdx,         \* the index of the `for _, path := range lib.paths` loop
    walker,           \* one scanPath goroutine per (Scan call, root)
    hist,             \* what has happened so far (observation only)
    call,             \* the AddMedia calls in flight, one slot per caller
    cleaner,          \* where a cleanUpDatabase run on its own is
    query,            \* the latest Search query
    results,          \* what the latest Search returned
    srv,              \* the web server: the fields of Server
    serveGoroutine,   \* the serveGoroutine started by each Serve call
    client            \* the goroutines that call Serve, Stop and Wait

config == <<paths, fs, tags, LibraryFastScan, ScanConfig>>

\* The three tables of the catalog.
catalog == <<tracks, albums, artists>>

\* The state no step of Scan and scanPath reads or writes.
offScan == <<call, cleaner, query, results, srv, serveGoroutine, client>>

\* The state of Scan and scanPath apart from the catalog.
scanState == <<waitScanLock, walkWG, watch, watched, pc, spawnIdx, walker>>

vars == <<config, catalog, scanState, hist, offScan>>

----------------------------------------------------------------------------
(* The filesystem.  A tree is the sequence of its entries in the order     *)
(* filepath.Walk meets them (pre-order, names sorted), each with its       *)
(* depth below the root.                                                   *)

\* kind: what Lstat says the entry is.
\* media: the name ends in one of the supported audio extensions.
\* err: "none"; "lstat" (the entry cannot be stat'ed: missing, permission
\*      denied); "readdir" (a directory whose listing cannot be read).
Entry(kind, media, err, depth) ==
    [kind |-> kind, media |-> media, err |-> err, depth |-> depth]

EntryShapes ==
    {<<"dir", FALSE, "none">>, <<"dir", TRUE, "none">>, <<"dir", FALSE, "readdir">>,
     <<"file", TRUE, "none">>, <<"file", FALSE, "none">>, <<"file", TRUE, "lstat">>}

CanHaveChildren(e) == e.kind = "dir" /\ e.err # "lstat"

\* The entries that may follow tree t in pre-order: at depth 1..(last depth),
\* or one deeper than the last entry when that one is a directory.
Extensions(shapes, t) ==
    LET last == t[Len(t)]
        deepest == IF CanHaveChildren(last) THEN last.depth + 1 ELSE last.depth
    IN  {Append(t, Entry(sh[1], sh[2], sh[3], d)) :
            sh \in shapes, d \in 1..deepest}

RECURSIVE TreesOfLen(_, _)
TreesOfLen(shapes, n) ==
    IF n = 1
    THEN {<<Entry(sh[1], sh[2], sh[3], 0)>> : sh \in shapes}
    ELSE UNION {Extensions(shapes, t) : t \in TreesOfLen(shapes, n - 1)}

TreesUpTo(shapes, max) == UNION {TreesOfLen(shapes, n) : n \in 1..max}

\* The deeper trees leave out the directory named like a media file, which
\* the walk and the throttling treat like any other directory.
DeepShapes == EntryShapes \ {<<"dir", TRUE, "none">>}

\* The trees walked side by side: directories and files that are not media.
PairShapes == {<<"dir", FALSE, "none">>, <<"file", FALSE, "none">>}

\* The small trees used when several Scan() calls run concurrently:
\* a missing root, a root that is a single media file, a directory holding
\* one media file.
MissingRoot == <<Entry("file", TRUE, "lstat", 0)>>
SingleFile  == <<Entry("file", TRUE, "none", 0)>>
SmallDir    == <<Entry("dir", FALSE, "none", 0), Entry("file", TRUE, "none", 1)>>

ScanTrees == {MissingRoot, SingleFile, SmallDir}

Range(seq) == {seq[i] : i \in 1..Len(seq)}

\* The ancestors of entry i: for every smaller depth, the last entry before i
\* at that depth.
Ancestors(t, i) ==
    {j \in 1..(i - 1) :
        /\ t[j].depth < t[i].depth
        /\ \A k \in (j + 1)..(i - 1) : t[k].depth > t[j].depth}

\* The entries a complete walk of t reports: those below readable directories.
Visible(t) ==
    {i \in 1..Len(t) : \A j \in Ancestors(t, i) : t[j].err = "none"}

----------------------------------------------------------------------------
(* The decisions of Scan and of walkFunc.                                  *)

\* A Scan that pauses whenever InitialWait is set, fast mode or not.
InitialWaitDueIgnoringFast(fast, initialWait) == initialWait > 0

\* Scan, line 22: `if !LibraryFastScan && initialWait > 0`.
InitialWaitDue(fast, initialWait) == ~fast /\ initialWait > 0

\* A walker that pauses one entry late (`>` for `>=`).
ThrottleDueLate(fast, filesPerOperation, scannedFiles, sleepPerOperation) ==
    /\ ~fast
    /\ filesPerOperation > 0
    /\ scannedFiles > filesPerOperation
    /\ sleepPerOperation > 0

\* walkFunc, lines 85-86: the counter has already been incremented.
ThrottleDue(fast, filesPerOperation, scannedFiles, sleepPerOperation) ==
    /\ ~fast
    /\ filesPerOperation > 0
    /\ scannedFiles >= filesPerOperation
    /\ sleepPerOperation > 0

\* lib.isSupportedFormat(path): a predicate of the path alone.
isSupportedFormat(e) == e.media

\* A walker that registers every entry it visits when the watcher is on.
ShouldWatchAnyEntry(w, e) == w # "nil"

\* A walker that hands every entry to AddMedia.
ShouldAddMediaUnfiltered(e) == TRUE

\* walkFunc, line 68: what is handed to AddMedia.
ShouldAddMedia(e) == isSupportedFormat(e)

\* walkFunc, line 76: `lib.watch != nil && info.IsDir()`.
ShouldWatch(w, e) == w # "nil" /\ e.kind = "dir"

\* A walkFunc that hands the entry's error back to filepath.Walk.
WalkFuncResultPropagating(e) == IF e.err # "none" THEN "err" ELSE "nil"

\* What walkFunc returns to filepath.Walk: nil on every path (lines 65, 95).
WalkFuncResult(e) == "nil"

\* lib.AddMedia(path): the results it can have.  Metadata extraction reads
\* the file, so it cannot succeed on a directory.
AddMediaOutcomes(e) == IF e.kind = "file" THEN {TRUE, FALSE} ELSE {FALSE}

\* filepath.Walk: the entry reported after entry i, given what walkFunc
\* returned for i.  A non-nil result ends the walk; an entry reported with an
\* error is not descended into.
NextPos(t, i, result) ==
    IF result # "nil" THEN Len(t) + 1
    ELSE IF t[i].err = "none" THEN i + 1
    ELSE LET later == {j \in (i + 1)..Len(t) : t[j].depth <= t[i].depth}
         IN  IF later = {} THEN Len(t) + 1
             ELSE CHOOSE j \in later : \A k \in later : j <= k

\* A Wait that does not wait.
WaitMayReturnEarly(counter) == TRUE

\* walkWG.Wait() returns when the counter is zero.  Every Wait is made under
\* the read side of waitScanLock and every Add under its write side, so the
\* counter cannot rise between a waiter's release and its return.
WaitMayReturn(counter) == counter = 0

----------------------------------------------------------------------------
(* The catalog.  A table is the bag of its rows; a row's id is left out    *)
(* and a reference to a row is the value of that row's unique column:      *)
(*   tracks(name, album -> albums.fs_path, artist -> artists.name,         *)
(*          fs_path UNIQUE),  albums(name, fs_path UNIQUE),                *)
(*   artists(name UNIQUE).                                                 *)
(* A path is <<root, i>>: the i-th entry under that root.                  *)

Rows(table) == BagToSet(table)

OneRow(row) == SetToBag({row})

HasRow(table, column, value) == \E row \in Rows(table) : row[column] = value

Tables(t, al, ar) == [tracks |-> t, albums |-> al, artists |-> ar]

TrackPaths == {row.path : row \in Rows(tracks)}

\* An INSERT into a table that has no UNIQUE constraint.
InsertUnconstrained(table, row, unique) == table (+) OneRow(row)

\* INSERT ... ON CONFLICT DO NOTHING into a table whose column `unique` is
\* UNIQUE: a row whose key the table holds already is not inserted.
Insert(table, row, unique) ==
    IF HasRow(table, unique, row[unique]) THEN table ELSE table (+) OneRow(row)

\* A track INSERT with no foreign key enforced.
ReferencesHoldUnenforced(cat, row) == TRUE

\* The foreign keys of a track row: its album and its artist are rows.
ReferencesHold(cat, row) ==
    /\ HasRow(cat.albums, "path", row.album)
    /\ HasRow(cat.artists, "name", row.artist)

\* The INSERT of a track row, rejected when a foreign key fails.
InsertTrack(cat, row) ==
    IF ReferencesHold(cat, row) THEN Insert(cat.tracks, row, "path") ELSE cat.tracks

\* The UPDATE of the metadata fields of the track rows of a path.
UpdateTrack(table, path, name) ==
    LET Updated(row) == IF row.path = path THEN [row EXCEPT !.name = name] ELSE row
    IN  BagOfAll(Updated, table)

\* The directory holding entry i of tree t: its nearest ancestor, or 0 for
\* the directory that holds the root.
ParentOf(t, i) ==
    LET up == Ancestors(t, i)
    IN  IF up = {} THEN 0 ELSE CHOOSE j \in up : \A k \in up : k <= j

\* The rows AddMedia(path) writes, from the metadata of the file.
TrackRow(f, tg, path) ==
    [path |-> path, name |-> tg[path[1]][path[2]].title,
     album |-> <<path[1], ParentOf(f[path[1]], path[2])>>,
     artist |-> tg[path[1]][path[2]].artist]

AlbumRow(f, tg, path) ==
    [path |-> <<path[1], ParentOf(f[path[1]], path[2])>>,
     name |-> tg[path[1]][path[2]].album]

ArtistRow(f, tg, path) == [name |-> tg[path[1]][path[2]].artist]

\* An AddMedia that inserts its rows without looking the path up.
AddMediaWithoutLookup(cat, f, tg, path) ==
    [tracks |-> cat.tracks (+) OneRow(TrackRow(f, tg, path)),
     albums |-> Insert(cat.albums, AlbumRow(f, tg, path), "path"),
     artists |-> Insert(cat.artists, ArtistRow(f, tg, path), "name")]

\* lib.AddMedia(path) when it succeeds and nothing else writes meanwhile: a
\* known path has its track row updated in place; otherwise the album and
\* the artist are created when unseen and the track row is inserted.
AddMedia(cat, f, tg, path) ==
    IF HasRow(cat.tracks, "path", path)
    THEN [cat EXCEPT !.tracks = UpdateTrack(@, path, TrackRow(f, tg, path).name)]
    ELSE LET withAlbum == [cat EXCEPT !.albums = Insert(@, AlbumRow(f, tg, path), "path")]
             withArtist == [withAlbum EXCEPT
                               !.artists = Insert(@, ArtistRow(f, tg, path), "name")]
         IN  [withArtist EXCEPT !.tracks = InsertTrack(withArtist, TrackRow(f, tg, path))]

\* fs.Stat(path) succeeds: the entry is under its root and can be stat'ed.
FileExists(f, path) ==
    /\ path[1] \in DOMAIN f
    /\ path[2] \in 1..Len(f[path[1]])
    /\ f[path[1]][path[2]].err # "lstat"

\* DELETE FROM table WHERE the row is not among `kept`.
KeepRows(table, kept) == [row \in Rows(table) \cap kept |-> table[row]]

\* cleanUpDatabase, first statement: the track rows whose file is gone.
DeleteMissingTracks(cat, f) ==
    [cat EXCEPT !.tracks = KeepRows(@, {row \in Rows(@) : FileExists(f, row.path)})]

\* cleanUpDatabase, second statement: the albums no track row references.
DeleteUnusedAlbums(cat) ==
    [cat EXCEPT !.albums =
        KeepRows(@, {row \in Rows(@) : HasRow(cat.tracks, "album", row.path)})]

\* cleanUpDatabase, third statement: the artists no track row references.
DeleteUnusedArtists(cat) ==
    [cat EXCEPT !.artists =
        KeepRows(@, {row \in Rows(@) : HasRow(cat.tracks, "artist", row.name)})]

\* A clean-up that judges an artist through the albums: it keeps the artist
\* of any track, gone or not, whose album is kept.
cleanUpDatabaseArtistsByAlbum(cat, f) ==
    LET pruned == DeleteUnusedAlbums(DeleteMissingTracks(cat, f))
        Used(row) == \E t \in Rows(cat.tracks) :
                         t.artist = row.name /\ HasRow(pruned.albums, "path", t.album)
    IN  [pruned EXCEPT !.artists = KeepRows(@, {row \in Rows(@) : Used(row)})]

\* A clean-up that prunes the albums and artists before the tracks.
cleanUpDatabasePruningFirst(cat, f) ==
    DeleteMissingTracks(DeleteUnusedArtists(DeleteUnusedAlbums(cat)), f)

\* lib.cleanUpDatabase() when nothing else writes meanwhile.
cleanUpDatabase(cat, f) ==
    DeleteUnusedArtists(DeleteUnusedAlbums(DeleteMissingTracks(cat, f)))

\* The letters of names and queries; the capital has a lower-case form.
Letters == {"a", "A", "n"}

\* Case folding as a query does it.
KeepCase(c) == c

Lower(c) == IF c = "A" THEN "a" ELSE c

ToLower(str) == [i \in 1..Len(str) |-> Lower(str[i])]

HasPrefix(str, prefix) ==
    /\ Len(prefix) <= Len(str)
    /\ SubSeq(str, 1, Len(prefix)) = prefix

RECURSIVE Contains(_, _)
Contains(str, substr) ==
    IF Len(substr) > Len(str) THEN FALSE
    ELSE IF HasPrefix(str, substr) THEN TRUE
    ELSE Contains(Tail(str), substr)

\* name LIKE '%query%', whatever the case of the letters.
Like(name, q) == Contains(ToLower(name), ToLower(q))

\* Search(query): the tracks joined with their albums, those kept whose
\* title, album name or artist name is like the query.
SearchJoin(cat, q) ==
    {pair \in Rows(cat.tracks) \X Rows(cat.albums) :
        /\ pair[2].path = pair[1].album
        /\ \/ Like(pair[1].name, q)
           \/ Like(pair[2].name, q)
           \/ Like(pair[1].artist, q)}

SearchResult(pair) ==
    [id |-> pair[1].path, title |-> pair[1].name, album |-> pair[2].name,
     artist |-> pair[1].artist]

\* What Search may return: one result per row of the join, in any order.
Search(cat, q) ==
    LET found == SearchJoin(cat, q)
        n == Cardinality(found)
    IN  {[i \in 1..n |-> SearchResult(order[i])] :
            order \in {o \in [1..n -> found] : \A i, j \in 1..n : o[i] = o[j] => i = j}}

----------------------------------------------------------------------------
(* The state after NewLocalLibrary: no scan running, the watcher not yet   *)
(* created, an empty catalog.                                              *)

AllRoots == {"r1", "r2"}

WalkerIds == Scans \X AllRoots

\* The files on disk that walkFunc hands to AddMedia (lines 63-69).
MediaFiles(f) ==
    {p \in AllRoots \X (1..3) :
        /\ FileExists(f, p)
        /\ f[p[1]][p[2]].err = "none"
        /\ f[p[1]][p[2]].kind = "file"
        /\ ShouldAddMedia(f[p[1]][p[2]])}

NoWalker == [state |-> "none", pos |-> 0, scannedFiles |-> 0]

NoWalkerHist ==
    [visited |-> {}, addMedia |-> {}, watchCalls |-> {}, doneCalls |-> 0, sleeps |-> 0,
     counted |-> 0, sleptAfter |-> {}, files |-> 0, sleptAfterFile |-> {}]

NoTables == Tables(EmptyBag, EmptyBag, EmptyBag)

\* What the extractor reads when every file carries the same tags.
SameTags == [title |-> <<"t">>, album |-> <<"a">>, artist |-> <<"b">>]

NoCall == [pc |-> "idle", path |-> <<>>, newAlbum |-> FALSE, newArtist |-> FALSE,
           calls |-> 0]

Callers == {"r1", "r2", "watcher"}

\* No catalog client apart from Scan: no AddMedia call of the watcher, no
\* clean-up run on its own, no search.
NoClients ==
    /\ call = [c \in Callers |-> NoCall]
    /\ cleaner = [pc |-> "idle", runs |-> 0]
    /\ query = [pc |-> "idle", text |-> <<>>]
    /\ results = <<>>

\* The goroutines that call Serve, Stop and Wait on the server.
Clients == {"c1", "c2"}

NoClient == [pc |-> "idle", calls |-> 0]

\* NewServer (lines 292-308): a context not cancelled, no listener, the
\* wait group at zero, the mutex free.  `open` holds the listeners the
\* operating system has open, `crashed` tells that a panic has ended the
\* process.
NewServer(ssl, templates) ==
    [ctx |-> "live", SSL |-> ssl, templates |-> templates, startWG |-> 0,
     listener |-> 0, mutex |-> "none", open |-> {}, crashed |-> FALSE]

ServerOf(ssl, templates) ==
    /\ srv = NewServer(ssl, templates)
    /\ serveGoroutine = <<>>
    /\ client = [c \in Clients |-> NoClient]

\* A web server nothing calls.
NoServer == ServerOf(FALSE, TRUE)

\* Nothing has happened yet.  The Watch calls are recorded only where
\* recordWatch is set.
NoHist ==
    [initialSleeps |-> [s \in Scans |-> 0],
     cleanups |-> [s \in Scans |-> 0],
     started |-> [s \in Scans |-> 0],
     w |-> [w \in WalkerIds |-> NoWalkerHist],
     before |-> <<>>,
     recordWatch |-> FALSE,
     server |-> [serveLog |-> <<>>, stopped |-> FALSE, waited |-> FALSE]]

\* No walker yet; the goroutines in `callers` are about to call Scan().
InitScan(callers) ==
    /\ waitScanLock = [readers |-> {}, rwait |-> {}, pending |-> NoScan,
                       writer |-> NoScan]
    /\ walkWG = 0
    /\ watch = "nil"
    /\ watched = {}
    /\ pc = [s \in Scans |-> IF s \in callers THEN "gateRLock" ELSE "idle"]
    /\ spawnIdx = [s \in Scans |-> 0]
    /\ walker = [w \in WalkerIds |-> NoWalker]

\* A library over a new database, every file tagged alike.
InitLibrary(callers) ==
    /\ InitScan(callers)
    /\ tracks = EmptyBag
    /\ albums = EmptyBag
    /\ artists = EmptyBag
    /\ tags = [r \in DOMAIN fs |-> [i \in 1..Len(fs[r]) |-> SameTags]]
    /\ NoClients
    /\ NoServer

InitState(callers) == InitLibrary(callers) /\ hist = NoHist

\* Every goroutine calls Scan() on a library of two roots with small trees.
Init ==
    /\ paths = <<"r1", "r2">>
    /\ fs \in [AllRoots -> ScanTrees]
    /\ LibraryFastScan \in BOOLEAN
    /\ ScanConfig \in
         {[InitialWait |-> 0, FilesPerOperation |-> 0, SleepPerOperation |-> 0],
          [InitialWait |-> 1, FilesPerOperation |-> 1, SleepPerOperation |-> 1]}
    /\ InitState(Scans)

\* Concurrent Scan() calls, throttled, on a library of two roots, each a
\* single file or missing.
InitFair ==
    /\ paths = <<"r1", "r2">>
    /\ fs \in [AllRoots -> {MissingRoot, SingleFile}]
    /\ LibraryFastScan = FALSE
    /\ ScanConfig = [InitialWait |-> 1, FilesPerOperation |-> 1, SleepPerOperation |-> 1]
    /\ InitState(Scans)

\* One Scan() call on a library of one root, with any tree of up to
\* MaxEntries entries and any throttling configuration.
InitWalk ==
    /\ paths = <<"r1">>
    /\ fs \in [{"r1"} -> TreesUpTo(EntryShapes, MaxEntries)]
    /\ LibraryFastScan \in BOOLEAN
    /\ ScanConfig \in [InitialWait : {0, 1}, FilesPerOperation : {0, 2},
                       SleepPerOperation : {0, 1}]
    /\ InitState({1})

\* One Scan() call on a library of one root, with any tree of up to
\* MaxDeepEntries entries, throttled to a pause every entry or every second
\* entry.
InitDeep ==
    /\ paths = <<"r1">>
    /\ fs \in [{"r1"} -> TreesUpTo(DeepShapes, MaxDeepEntries)]
    /\ LibraryFastScan = FALSE
    /\ ScanConfig \in [InitialWait : {1}, FilesPerOperation : {1, 2},
                       SleepPerOperation : {1}]
    /\ InitState({1})

\* One throttled Scan() call on a library of two roots, whose two walkers run
\* side by side.
InitPair ==
    /\ paths = <<"r1", "r2">>
    /\ fs \in [AllRoots -> TreesUpTo(PairShapes, MaxPairEntries)]
    /\ LibraryFastScan = FALSE
    /\ ScanConfig \in [InitialWait : {1}, FilesPerOperation : {1, 2},
                       SleepPerOperation : {1}]
    /\ InitState({1})

\* A throttled Scan() call on a library of one root, with any tree of up to
\* MaxEntries entries; the other callers have not called yet.
InitRescan ==
    /\ paths = <<"r1">>
    /\ fs \in [{"r1"} -> TreesUpTo(EntryShapes, MaxEntries)]
    /\ LibraryFastScan = FALSE
    /\ ScanConfig \in [InitialWait : {1}, FilesPerOperation : {2},
                       SleepPerOperation : {1}]
    /\ InitState({1})

\* One throttled Scan() call on a library of one root, with any tree of up to
\* MaxEntries entries, its Watch calls recorded.
InitWatch ==
    /\ paths = <<"r1">>
    /\ fs \in [{"r1"} -> TreesUpTo(EntryShapes, MaxEntries)]
    /\ LibraryFastScan = FALSE
    /\ ScanConfig \in [InitialWait : {1}, FilesPerOperation : {2},
                       SleepPerOperation : {1}]
    /\ InitLibrary({1})
    /\ hist = [NoHist EXCEPT !.recordWatch = TRUE]

\* The directory of three entries the catalogs below are about: one media
\* file that is on disk and maybe one that is gone; or nothing on disk.
CleanupTrees ==
    {MissingRoot,
     <<Entry("dir", FALSE, "none", 0), Entry("file", TRUE, "none", 1),
       Entry("file", TRUE, "none", 1)>>,
     <<Entry("dir", FALSE, "none", 0), Entry("file", TRUE, "none", 1),
       Entry("file", TRUE, "lstat", 1)>>}

CleanupPaths == {<<"r1", i>> : i \in 2..(MaxTrackRows + 1)}

CleanupAlbums == {[path |-> <<"r1", d>>, name |-> <<"a">>] : d \in {0, 1}}

CleanupArtists == {[name |-> <<"b">>], [name |-> <<"c">>]}

CleanupTracks ==
    {[path |-> p, name |-> <<"t">>, album |-> al.path, artist |-> ar.name] :
        p \in CleanupPaths, al \in CleanupAlbums, ar \in CleanupArtists}

\* The catalogs a database can hold: track paths unique, every reference of a
\* track to a row that exists; albums and artists without tracks allowed.
StoredCatalogs ==
    {Tables(SetToBag(t), SetToBag(al), SetToBag(ar)) :
        t \in {ts \in SUBSET CleanupTracks :
                  \A x, y \in ts : x.path = y.path => x = y},
        al \in SUBSET CleanupAlbums, ar \in SUBSET CleanupArtists}

\* A new server, with or without SSL, its templates readable or not, over a
\* library that is not scanned.
InitServer ==
    /\ paths = <<"r1">>
    /\ fs = [r \in {"r1"} |-> MissingRoot]
    /\ tags = [r \in DOMAIN fs |-> [i \in 1..Len(fs[r]) |-> SameTags]]
    /\ LibraryFastScan = TRUE
    /\ ScanConfig = [InitialWait |-> 0, FilesPerOperation |-> 0, SleepPerOperation |-> 0]
    /\ InitScan({})
    /\ tracks = EmptyBag
    /\ albums = EmptyBag
    /\ artists = EmptyBag
    /\ NoClients
    /\ \E ssl \in BOOLEAN, templates \in BOOLEAN : ServerOf(ssl, templates)
    /\ hist = NoHist

\* TestLocalLibraryCleanup: a library whose database holds rows written
\* earlier, over a disk some of whose files are gone; cleanUpDatabase is
\* called on it directly.
InitCleanup ==
    /\ paths = <<"r1">>
    /\ fs \in [{"r1"} -> CleanupTrees]
    /\ tags = [r \in DOMAIN fs |-> [i \in 1..Len(fs[r]) |-> SameTags]]
    /\ LibraryFastScan = TRUE
    /\ ScanConfig = [InitialWait |-> 0, FilesPerOperation |-> 0, SleepPerOperation |-> 0]
    /\ InitScan({})
    /\ \E cat \in StoredCatalogs :
         /\ \A row \in Rows(cat.tracks) : ReferencesHold(cat, row)
         /\ tracks = cat.tracks
         /\ albums = cat.albums
         /\ artists = cat.artists
    /\ NoClients
    /\ NoServer
    /\ hist = NoHist

\* Two roots: a directory of two media files and a directory of one.
CatalogTrees ==
    [r1 |-> <<Entry("dir", FALSE, "none", 0), Entry("file", TRUE, "none", 1),
              Entry("file", TRUE, "none", 1)>>,
     r2 |-> SmallDir]

ArtistNames == {<<"b">>, <<"c">>}

\* The walkers of the two roots and the watcher call AddMedia side by side,
\* on files tagged with one artist or another, while files are deleted,
\* the watcher reports removals and clean-up passes run.
InitCatalog ==
    /\ paths = <<"r1", "r2">>
    /\ fs = CatalogTrees
    /\ \E other \in ArtistNames :
         tags = [r \in AllRoots |-> [i \in 1..Len(fs[r]) |->
                    IF <<r, i>> = <<"r1", 3>> THEN [SameTags EXCEPT !.artist = other]
                    ELSE SameTags]]
    /\ LibraryFastScan = TRUE
    /\ ScanConfig = [InitialWait |-> 0, FilesPerOperation |-> 0, SleepPerOperation |-> 0]
    /\ InitScan({})
    /\ tracks = EmptyBag
    /\ albums = EmptyBag
    /\ artists = EmptyBag
    /\ NoClients
    /\ NoServer
    /\ hist = NoHist

TitleNames == {<<"a">>, <<"n", "a">>}

SearchArtistNames == {<<"n">>, <<"a", "a">>}

AlbumNames == {<<"A", "n">>, <<"n", "a">>}

\* TestSearchUrl: a library of two roots over a new database; the two files
\* of the first root are of one album, the file of the other root of an
\* album of the same or of another name.
InitSearch ==
    /\ paths = <<"r1", "r2">>
    /\ fs = CatalogTrees
    /\ \E title \in [MediaFiles(fs) -> TitleNames],
          artist \in [MediaFiles(fs) -> SearchArtistNames],
          album \in AlbumNames :
         tags = [r \in AllRoots |-> [i \in 1..Len(fs[r]) |->
                    IF <<r, i>> \in MediaFiles(fs)
                    THEN [title |-> title[<<r, i>>],
                          album |-> IF r = "r1" THEN <<"A", "n">> ELSE album,
                          artist |-> artist[<<r, i>>]]
                    ELSE SameTags]]
    /\ LibraryFastScan = TRUE
    /\ ScanConfig = [InitialWait |-> 0, FilesPerOperation |-> 0, SleepPerOperation |-> 0]
    /\ InitScan({})
    /\ tracks = EmptyBag
    /\ albums = EmptyBag
    /\ artists = EmptyBag
    /\ NoClients
    /\ NoServer
    /\ hist = NoHist

----------------------------------------------------------------------------
(* sync.RWMutex.  A writer that has called Lock keeps later readers out     *)
(* until it has held and released the lock; the readers that queued behind *)
(* it are all admitted by its Unlock, before any later writer.             *)

\* An RLock that a writer does not keep out.
RLockPastWriter(l, s) == [l EXCEPT !.readers = @ \cup {s}]

RLock(l, s) ==
    IF l.pending = NoScan
    THEN [l EXCEPT !.readers = @ \cup {s}]
    ELSE [l EXCEPT !.rwait = @ \cup {s}]

RUnlock(l, s) == [l EXCEPT !.readers = @ \ {s}]

\* An Unlock that leaves the readers queued behind the writer waiting.
UnlockKeepingReadersOut(l) ==
    [readers |-> {}, rwait |-> l.rwait, pending |-> NoScan, writer |-> NoScan]

Unlock(l) ==
    [readers |-> l.rwait, rwait |-> {}, pending |-> NoScan, writer |-> NoScan]

----------------------------------------------------------------------------
(* LocalLibrary.Scan, one action per blocking call or step.                *)

\* Lines 14 and 34: lib.waitScanLock.RLock().
ScanRLock(s) ==
    /\ pc[s] \in {"gateRLock", "joinRLock"}
    /\ waitScanLock' = RLock(waitScanLock, s)
    /\ pc' = [pc EXCEPT ![s] = IF @ = "gateRLock" THEN "gateWait" ELSE "joinWait"]
    /\ UNCHANGED <<config, offScan, walkWG, watch, watched, catalog, spawnIdx, walker, hist>>

\* Lines 15 and 35: lib.walkWG.Wait(), made holding the read lock.
ScanWait(s) ==
    /\ pc[s] \in {"gateWait", "joinWait"}
    /\ s \in waitScanLock.readers
    /\ WaitMayReturn(walkWG)
    /\ pc' = [pc EXCEPT ![s] = IF @ = "gateWait" THEN "gateRUnlock" ELSE "joinRUnlock"]
    /\ UNCHANGED <<config, offScan, waitScanLock, walkWG, watch, watched, catalog, spawnIdx,
                   walker, hist>>

\* Lines 16 and 36: lib.waitScanLock.RUnlock().
ScanRUnlock(s) ==
    /\ pc[s] \in {"gateRUnlock", "joinRUnlock"}
    /\ waitScanLock' = RUnlock(waitScanLock, s)
    /\ pc' = [pc EXCEPT ![s] = IF @ = "gateRUnlock" THEN "init" ELSE "cleanup"]
    /\ UNCHANGED <<config, offScan, walkWG, watch, watched, catalog, spawnIdx, walker, hist>>

\* Lines 20-25: lib.initializeWatcher(), which creates the watcher once and
\* may fail to, then the initial pause when it is due.
ScanInitialize(s) ==
    /\ pc[s] = "init"
    /\ \E created \in BOOLEAN :
         watch' = IF watch = "nil" /\ created THEN "active" ELSE watch
    /\ IF InitialWaitDue(LibraryFastScan, ScanConfig.InitialWait)
       THEN /\ pc' = [pc EXCEPT ![s] = "initialWait"]
            /\ hist' = [hist EXCEPT !.initialSleeps[s] = @ + 1]
       ELSE /\ pc' = [pc EXCEPT ![s] = "lock"]
            /\ UNCHANGED hist
    /\ UNCHANGED <<config, offScan, waitScanLock, walkWG, watched, catalog, spawnIdx, walker>>

\* Line 24: time.Sleep(initialWait) is over.
ScanInitialWaitOver(s) ==
    /\ pc[s] = "initialWait"
    /\ pc' = [pc EXCEPT ![s] = "lock"]
    /\ UNCHANGED <<config, offScan, waitScanLock, walkWG, watch, watched, catalog, spawnIdx,
                   walker, hist>>

\* Line 27: lib.waitScanLock.Lock() is called: the writer announces itself.
ScanLock(s) ==
    /\ pc[s] = "lock"
    /\ waitScanLock.pending = NoScan
    /\ waitScanLock' = [waitScanLock EXCEPT !.pending = s]
    /\ pc' = [pc EXCEPT ![s] = "lockWait"]
    /\ UNCHANGED <<config, offScan, walkWG, watch, watched, catalog, spawnIdx, walker, hist>>

\* Line 27: Lock() returns once the readers have left.
ScanLockAcquired(s) ==
    /\ pc[s] = "lockWait"
    /\ waitScanLock.pending = s
    /\ waitScanLock.readers = {}
    /\ waitScanLock' = [waitScanLock EXCEPT !.writer = s]
    /\ pc' = [pc EXCEPT ![s] = "spawn"]
    /\ spawnIdx' = [spawnIdx EXCEPT ![s] = 1]
    /\ UNCHANGED <<config, offScan, walkWG, watch, watched, catalog, walker, hist>>

\* Lines 28-31: one turn of the loop: walkWG.Add(1); go lib.scanPath(path).
ScanSpawn(s) ==
    /\ pc[s] = "spawn"
    /\ spawnIdx[s] <= Len(paths)
    /\ walkWG' = walkWG + 1
    /\ walker' = [walker EXCEPT ![<<s, paths[spawnIdx[s]]>>] =
                     [state |-> "walking", pos |-> 1, scannedFiles |-> 0]]
    /\ spawnIdx' = [spawnIdx EXCEPT ![s] = @ + 1]
    /\ hist' = [hist EXCEPT !.started[s] = @ + 1]
    /\ UNCHANGED <<config, offScan, waitScanLock, watch, watched, catalog, pc>>

\* A Scan that goes on to the clean-up without joining its walkers.
ScanUnlockNoJoin(s) ==
    /\ pc[s] = "spawn"
    /\ spawnIdx[s] > Len(paths)
    /\ waitScanLock' = Unlock(waitScanLock)
    /\ pc' = [pc EXCEPT ![s] = "cleanup"]
    /\ UNCHANGED <<config, offScan, walkWG, watch, watched, catalog, spawnIdx, walker, hist>>

\* Line 32: the loop is over: lib.waitScanLock.Unlock().
ScanUnlock(s) ==
    /\ pc[s] = "spawn"
    /\ spawnIdx[s] > Len(paths)
    /\ waitScanLock' = Unlock(waitScanLock)
    /\ pc' = [pc EXCEPT ![s] = "joinRLock"]
    /\ UNCHANGED <<config, offScan, walkWG, watch, watched, catalog, spawnIdx, walker, hist>>

\* Scan() is called again once the call before it has returned, the tree
\* unchanged.
ScanAgain(s) ==
    /\ s > 1
    /\ pc[s] = "idle"
    /\ pc[s - 1] = "returned"
    /\ pc' = [pc EXCEPT ![s] = "gateRLock"]
    /\ hist' = [hist EXCEPT !.before = Append(@, Tables(tracks, albums, artists))]
    /\ UNCHANGED <<config, offScan, catalog, waitScanLock, walkWG, watch, watched,
                   spawnIdx, walker>>

\* Lines 39-42: lib.cleanUpDatabase(), then Scan returns.
ScanCleanUp(s) ==
    LET cleaned == cleanUpDatabase(Tables(tracks, albums, artists), fs)
    IN  /\ pc[s] = "cleanup"
        /\ tracks' = cleaned.tracks
        /\ albums' = cleaned.albums
        /\ artists' = cleaned.artists
        /\ hist' = [hist EXCEPT !.cleanups[s] = @ + 1]
        /\ pc' = [pc EXCEPT ![s] = "returned"]
        /\ UNCHANGED <<config, offScan, waitScanLock, walkWG, watch, watched, spawnIdx,
                       walker>>

----------------------------------------------------------------------------
(* LocalLibrary.scanPath: the goroutine walking one root.                  *)

\* walkFunc, line 63: the entry is reported with an error.
EntryFailed(e) == e.err # "none"

RECURSIVE SumOfCounters(_, _)
SumOfCounters(wk, ids) ==
    IF ids = {} THEN 0
    ELSE LET k == CHOOSE j \in ids : TRUE
         IN  wk[k].scannedFiles + SumOfCounters(wk, ids \ {k})

\* A counter kept in the library, which all its walkers increment.
ScannedFilesShared(wk, k) == SumOfCounters(wk, DOMAIN wk)

\* Line 59: `var scannedFiles int64` is a local variable of each scanPath
\* call, captured by that call's walkFunc alone.
ScannedFiles(wk, k) == wk[k].scannedFiles

\* Lines 61-96: filepath.Walk calls walkFunc for the next entry.  The call
\* either returns at once or starts the pause of lines 88-92.
WalkFunc(s, r) ==
    LET k == <<s, r>>
        w == walker[k]
        t == fs[r]
        e == t[w.pos]
        h == hist.w[k]
    IN  /\ w.state = "walking"
        /\ w.pos <= Len(t)
        /\ IF EntryFailed(e)
           THEN /\ walker' = [walker EXCEPT
                                 ![k].pos = NextPos(t, w.pos, WalkFuncResult(e))]
                /\ hist' = [hist EXCEPT !.w[k].visited = @ \cup {w.pos}]
                /\ UNCHANGED <<catalog, watched>>
           ELSE \E addOk \in (IF ShouldAddMedia(e) THEN AddMediaOutcomes(e) ELSE {FALSE}),
                   watchOk \in (IF ShouldWatch(watch, e) THEN BOOLEAN ELSE {FALSE}) :
                LET scannedFiles == ScannedFiles(walker, k) + 1
                    pause == ThrottleDue(LibraryFastScan, ScanConfig.FilesPerOperation,
                                         scannedFiles, ScanConfig.SleepPerOperation)
                    counted == h.counted + 1
                    files == h.files + (IF e.kind = "file" THEN 1 ELSE 0)
                    cat == Tables(tracks, albums, artists)
                    added == IF addOk THEN AddMedia(cat, fs, tags, <<r, w.pos>>) ELSE cat
                IN  /\ tracks' = added.tracks
                    /\ albums' = added.albums
                    /\ artists' = added.artists
                    /\ watched' = IF watchOk THEN watched \cup {<<r, w.pos>>}
                                  ELSE watched
                    /\ walker' = [walker EXCEPT ![k] =
                          IF pause
                          THEN [@ EXCEPT !.state = "sleeping",
                                         !.scannedFiles = scannedFiles]
                          ELSE [@ EXCEPT !.scannedFiles = scannedFiles,
                                         !.pos = NextPos(t, w.pos, WalkFuncResult(e))]]
                    /\ hist' = [hist EXCEPT !.w[k] =
                          [@ EXCEPT
                             !.visited = @ \cup {w.pos},
                             !.addMedia = IF ShouldAddMedia(e) THEN @ \cup {w.pos} ELSE @,
                             !.watchCalls = IF hist.recordWatch /\ ShouldWatch(watch, e)
                                            THEN @ \cup {w.pos} ELSE @,
                             !.counted = counted,
                             !.files = files,
                             !.sleeps = IF pause THEN @ + 1 ELSE @,
                             !.sleptAfter = IF pause THEN @ \cup {counted} ELSE @,
                             !.sleptAfterFile = IF pause THEN @ \cup {files} ELSE @]]
        /\ UNCHANGED <<config, offScan, waitScanLock, walkWG, watch, pc, spawnIdx>>

\* Lines 91-95: time.Sleep(sleepPerOperation) is over: the counter is reset
\* and walkFunc returns.
WalkFuncWake(s, r) ==
    LET k == <<s, r>>
        w == walker[k]
        t == fs[r]
    IN  /\ w.state = "sleeping"
        /\ walker' = [walker EXCEPT ![k] =
              [state |-> "walking", scannedFiles |-> 0,
               pos |-> NextPos(t, w.pos, WalkFuncResult(t[w.pos]))]]
        /\ UNCHANGED <<config, offScan, waitScanLock, walkWG, watch, watched, catalog, pc,
                       spawnIdx, hist>>

\* A scanPath that calls Done only after a walk of a root that could be read
\* (no defer).
ScanPathExitNoDefer(s, r) ==
    LET k == <<s, r>>
        w == walker[k]
        failed == fs[r][1].err # "none"
    IN  /\ w.state = "walking"
        /\ w.pos > Len(fs[r])
        /\ walker' = [walker EXCEPT ![k].state = "done"]
        /\ walkWG' = IF failed THEN walkWG ELSE walkWG - 1
        /\ hist' = [hist EXCEPT !.w[k].doneCalls = IF failed THEN @ ELSE @ + 1]
        /\ UNCHANGED <<config, offScan, waitScanLock, watch, watched, catalog, pc, spawnIdx>>

\* Lines 51-54 and 98-103: filepath.Walk has returned; the deferred function
\* calls lib.walkWG.Done().
ScanPathExit(s, r) ==
    LET k == <<s, r>>
        w == walker[k]
    IN  /\ w.state = "walking"
        /\ w.pos > Len(fs[r])
        /\ walker' = [walker EXCEPT ![k].state = "done"]
        /\ walkWG' = walkWG - 1
        /\ hist' = [hist EXCEPT !.w[k].doneCalls = @ + 1]
        /\ UNCHANGED <<config, offScan, waitScanLock, watch, watched, catalog, pc, spawnIdx>>

----------------------------------------------------------------------------
(* The catalog's other clients.                                            *)

\* TestLocalLibraryCleanup, line 64: lib.cleanUpDatabase() called while
\* nothing else uses the library.
CleanUpDatabaseCall ==
    LET cat == Tables(tracks, albums, artists)
        cleaned == cleanUpDatabase(cat, fs)
    IN  /\ cleaner.pc = "idle"
        /\ cleaner.runs < 2
        /\ \A c \in Callers : call[c].pc = "idle"
        /\ tracks' = cleaned.tracks
        /\ albums' = cleaned.albums
        /\ artists' = cleaned.artists
        /\ cleaner' = [cleaner EXCEPT !.runs = @ + 1]
        /\ hist' = [hist EXCEPT !.before = Append(@, cat)]
        /\ UNCHANGED <<config, scanState, call, query, results, srv, serveGoroutine,
                       client>>

\* lib.AddMedia(path) on a media file, before any search, nothing else
\* running.
AddMediaWhole(path) ==
    LET added == AddMedia(Tables(tracks, albums, artists), fs, tags, path)
    IN  /\ path \in MediaFiles(fs)
        /\ query.pc = "idle"
        /\ ~HasRow(tracks, "path", path)
        /\ tracks' = added.tracks
        /\ albums' = added.albums
        /\ artists' = added.artists
        /\ UNCHANGED <<config, scanState, hist, offScan>>

Queries == UNION {[1..n -> Letters] : n \in 0..MaxQueryLen}

\* lib.Search(q).
SearchCall(q) ==
    /\ query' = [pc |-> "returned", text |-> q]
    /\ results' \in Search(Tables(tracks, albums, artists), q)
    /\ UNCHANGED <<config, catalog, scanState, hist, call, cleaner, srv,
                   serveGoroutine, client>>

\* The files a caller may hand to AddMedia next: a walker that has made n
\* calls the file after the first n files of its root, in the order of the
\* walk; the watcher any file an event can name.
NextFiles(f, c, n) ==
    IF c = "watcher" THEN MediaFiles(f)
    ELSE {p \in MediaFiles(f) :
             /\ p[1] = c
             /\ Cardinality({i \in 1..(p[2] - 1) : f[c][i].kind = "file"}) = n}

\* lib.AddMedia(path) is called: the metadata is extracted, or the call fails
\* and changes nothing.
AddMediaCall(c, path) ==
    /\ call[c].pc = "idle"
    /\ call[c].calls < MaxCalls
    /\ path \in NextFiles(fs, c, call[c].calls)
    /\ \E extracted \in BOOLEAN :
         call' = [call EXCEPT ![c] =
                     IF extracted THEN [@ EXCEPT !.pc = "select", !.path = path]
                     ELSE [@ EXCEPT !.calls = @ + 1]]
    /\ UNCHANGED <<config, catalog, scanState, hist, cleaner, query, results, srv,
                   serveGoroutine, client>>

\* AddMedia looks the path, the album and the artist up.  A known path has
\* its track row updated in place, which ends the call.
AddMediaSelect(c) ==
    LET path == call[c].path
    IN  /\ call[c].pc = "select"
        /\ IF HasRow(tracks, "path", path)
           THEN /\ tracks' = UpdateTrack(tracks, path, TrackRow(fs, tags, path).name)
                /\ call' = [call EXCEPT ![c] = [NoCall EXCEPT !.calls = call[c].calls + 1]]
           ELSE /\ call' = [call EXCEPT ![c] =
                       [@ EXCEPT !.pc = "album",
                                 !.newAlbum = ~HasRow(albums, "path",
                                                      AlbumRow(fs, tags, path).path),
                                 !.newArtist = ~HasRow(artists, "name",
                                                       ArtistRow(fs, tags, path).name)]]
                /\ UNCHANGED tracks
        /\ UNCHANGED <<config, albums, artists, scanState, hist, cleaner, query, results,
                       srv, serveGoroutine, client>>

\* AddMedia creates the album it did not find.
AddMediaAlbum(c) ==
    /\ call[c].pc = "album"
    /\ albums' = IF call[c].newAlbum
                 THEN Insert(albums, AlbumRow(fs, tags, call[c].path), "path")
                 ELSE albums
    /\ call' = [call EXCEPT ![c].pc = "artist"]
    /\ UNCHANGED <<config, tracks, artists, scanState, hist, cleaner, query, results, srv,
                   serveGoroutine, client>>

\* AddMedia creates the artist it did not find.
AddMediaArtist(c) ==
    /\ call[c].pc = "artist"
    /\ artists' = IF call[c].newArtist
                  THEN Insert(artists, ArtistRow(fs, tags, call[c].path), "name")
                  ELSE artists
    /\ call' = [call EXCEPT ![c].pc = "track"]
    /\ UNCHANGED <<config, tracks, albums, scanState, hist, cleaner, query, results, srv,
                   serveGoroutine, client>>

\* AddMedia inserts the track row, which ends the call.
AddMediaTrack(c) ==
    /\ call[c].pc = "track"
    /\ tracks' = InsertTrack(Tables(tracks, albums, artists),
                             TrackRow(fs, tags, call[c].path))
    /\ call' = [call EXCEPT ![c] = [NoCall EXCEPT !.calls = call[c].calls + 1]]
    /\ UNCHANGED <<config, albums, artists, scanState, hist, cleaner, query, results, srv,
                   serveGoroutine, client>>

\* A media file is deleted from the disk, the first to be.
FileDeleted(path) ==
    /\ path \in MediaFiles(fs)
    /\ \A r \in DOMAIN fs : \A i \in 1..Len(fs[r]) : fs[r][i].err = "none"
    /\ fs' = [fs EXCEPT ![path[1]][path[2]].err = "lstat"]
    /\ UNCHANGED <<paths, tags, LibraryFastScan, ScanConfig, catalog, scanState, hist,
                   offScan>>

\* The watcher reports a removed file: Remove(path) deletes its track row
\* and nothing else.
WatcherRemove(path) ==
    /\ path \in TrackPaths
    /\ ~FileExists(fs, path)
    /\ tracks' = KeepRows(tracks, {row \in Rows(tracks) : row.path # path})
    /\ UNCHANGED <<config, albums, artists, scanState, hist, offScan>>

\* cleanUpDatabase starts while other clients use the catalog: its first
\* statement.
CleanUpTracks ==
    /\ cleaner.pc = "idle"
    /\ cleaner.runs < MaxCalls
    /\ tracks' = DeleteMissingTracks(Tables(tracks, albums, artists), fs).tracks
    /\ cleaner' = [cleaner EXCEPT !.pc = "albums"]
    /\ UNCHANGED <<config, albums, artists, scanState, hist, call, query, results, srv,
                   serveGoroutine, client>>

\* cleanUpDatabase, its second statement.
CleanUpAlbums ==
    /\ cleaner.pc = "albums"
    /\ albums' = DeleteUnusedAlbums(Tables(tracks, albums, artists)).albums
    /\ cleaner' = [cleaner EXCEPT !.pc = "artists"]
    /\ UNCHANGED <<config, tracks, artists, scanState, hist, call, query, results, srv,
                   serveGoroutine, client>>

\* cleanUpDatabase, its third statement.
CleanUpArtists ==
    /\ cleaner.pc = "artists"
    /\ artists' = DeleteUnusedArtists(Tables(tracks, albums, artists)).artists
    /\ cleaner' = [pc |-> "idle", runs |-> cleaner.runs + 1]
    /\ UNCHANGED <<config, tracks, albums, scanState, hist, call, query, results, srv,
                   serveGoroutine, client>>

----------------------------------------------------------------------------

Next ==
    \/ \E s \in Scans : ScanRLock(s)
    \/ \E s \in Scans : ScanWait(s)
    \/ \E s \in Scans : ScanRUnlock(s)
    \/ \E s \in Scans : ScanInitialize(s)
    \/ \E s \in Scans : ScanInitialWaitOver(s)
    \/ \E s \in Scans : ScanLock(s)
    \/ \E s \in Scans : ScanLockAcquired(s)
    \/ \E s \in Scans : ScanSpawn(s)
    \/ \E s \in Scans : ScanUnlock(s)
    \/ \E s \in Scans : ScanCleanUp(s)
    \/ \E s \in Scans, r \in AllRoots : WalkFunc(s, r)
    \/ \E s \in Scans, r \in AllRoots : WalkFuncWake(s, r)
    \/ \E s \in Scans, r \in AllRoots : ScanPathExit(s, r)

\* Concurrent Scan() calls over two roots.
Spec == Init /\ [][Next]_vars

\* A goroutine that can take a step takes it in the end: the Scan() calls
\* and the walkers are goroutines the scheduler runs whenever they are not
\* blocked, and a sleep is over after its time.
FairScan ==
    /\ \A s \in Scans :
         /\ WF_vars(ScanRLock(s) \/ ScanWait(s) \/ ScanRUnlock(s))
         /\ WF_vars(ScanInitialize(s) \/ ScanInitialWaitOver(s))
         /\ WF_vars(ScanLock(s) \/ ScanLockAcquired(s) \/ ScanSpawn(s) \/ ScanUnlock(s))
         /\ WF_vars(ScanCleanUp(s))
    /\ \A s \in Scans, r \in AllRoots :
         WF_vars(WalkFunc(s, r) \/ WalkFuncWake(s, r) \/ ScanPathExit(s, r))

\* Concurrent Scan() calls under a fair scheduler.
SpecFair == InitFair /\ [][Next]_vars /\ FairScan

\* One Scan() call over every small tree layout and throttling configuration.
SpecWalk == InitWalk /\ [][Next]_vars

\* One throttled Scan() call over every tree layout, deeper trees included.
SpecDeep == InitDeep /\ [][Next]_vars

\* One throttled Scan() call whose two walkers run side by side.
SpecPair == InitPair /\ [][Next]_vars

\* One throttled Scan() call whose Watch calls are recorded.
SpecWatch == InitWatch /\ [][Next]_vars

NextRescan == Next \/ \E s \in Scans : ScanAgain(s)

\* Scan() called again and again over an unchanged tree.
SpecRescan == InitRescan /\ [][NextRescan]_vars

\* ---------------------------------------------------------------------
\* The web server (webserver.go)
\* ---------------------------------------------------------------------

library == <<config, catalog, scanState, call, cleaner, query, results>>

CallsMade == client["c1"].calls + client["c2"].calls

Log(entry) == [hist EXCEPT !.server.serveLog = Append(@, entry)]

\* Lines 68-77, up to the wait: Lock; a listener stored already makes the
\* call panic, the deferred Unlock running as the panic unwinds; otherwise
\* startWG.Add(1) and the goroutine is started.
ServeCall(c) ==
    /\ ~srv.crashed
    /\ client[c].pc = "idle"
    /\ CallsMade < MaxServerCalls
    /\ srv.mutex = "none"
    /\ IF srv.listener # 0
       THEN /\ client' = [client EXCEPT ![c].calls = @ + 1]
            /\ hist' = Log("panicked")
            /\ UNCHANGED <<srv, serveGoroutine>>
       ELSE /\ srv' = [srv EXCEPT !.mutex = c, !.startWG = @ + 1]
            /\ serveGoroutine' = Append(serveGoroutine,
                                        [pc |-> "templates", reason |-> "nil", dones |-> 0])
            /\ client' = [client EXCEPT ![c] = [pc |-> "startWait", calls |-> @.calls + 1]]
            /\ hist' = Log("started")
    /\ UNCHANGED library

\* Lines 76-77: startWG.Wait() returns, the deferred Unlock runs, Serve
\* returns.
ServeReturn(c) ==
    /\ ~srv.crashed
    /\ client[c].pc = "startWait"
    /\ srv.startWG = 0
    /\ srv' = [srv EXCEPT !.mutex = "none"]
    /\ client' = [client EXCEPT ![c].pc = "idle"]
    /\ UNCHANGED <<library, hist, serveGoroutine>>

\* A Stop that forgets the listener without closing it.
StopCallKeepingOpen(c) ==
    /\ ~srv.crashed
    /\ client[c].pc = "idle"
    /\ CallsMade < MaxServerCalls
    /\ srv.mutex = "none"
    /\ srv' = [srv EXCEPT !.listener = 0]
    /\ client' = [client EXCEPT ![c].calls = @ + 1]
    /\ hist' = [hist EXCEPT !.server.stopped = @ \/ hist.server.serveLog # <<>>]
    /\ UNCHANGED <<library, serveGoroutine>>

\* Lines 276-283: under the mutex, a stored listener is closed and
\* forgotten.
StopCall(c) ==
    /\ ~srv.crashed
    /\ client[c].pc = "idle"
    /\ CallsMade < MaxServerCalls
    /\ srv.mutex = "none"
    /\ srv' = [srv EXCEPT !.open = @ \ {srv.listener}, !.listener = 0]
    /\ client' = [client EXCEPT ![c].calls = @ + 1]
    /\ hist' = [hist EXCEPT !.server.stopped = @ \/ hist.server.serveLog # <<>>]
    /\ UNCHANGED <<library, serveGoroutine>>

\* Lines 286-288: Wait blocks on the context.
WaitCall(c) ==
    /\ ~srv.crashed
    /\ client[c].pc = "idle"
    /\ CallsMade < MaxServerCalls
    /\ client' = [client EXCEPT ![c] = [pc |-> "waiting", calls |-> @.calls + 1]]
    /\ UNCHANGED <<library, hist, srv, serveGoroutine>>

WaitReturn(c) ==
    /\ ~srv.crashed
    /\ client[c].pc = "waiting"
    /\ srv.ctx = "done"
    /\ client' = [client EXCEPT ![c].pc = "idle"]
    /\ hist' = [hist EXCEPT !.server.waited = @ \/ hist.server.stopped]
    /\ UNCHANGED <<library, srv, serveGoroutine>>

\* Lines 80-84: the templates are read; an error makes the goroutine panic,
\* which ends the process.  Lines 86-196 set the handlers and httpSrv up.
ReadTemplates(g) ==
    /\ ~srv.crashed
    /\ serveGoroutine[g].pc = "templates"
    /\ IF srv.templates
       THEN /\ serveGoroutine' = [serveGoroutine EXCEPT ![g].pc = "listen"]
            /\ UNCHANGED srv
       ELSE /\ serveGoroutine' = [serveGoroutine EXCEPT ![g].pc = "panicked"]
            /\ srv' = [srv EXCEPT !.crashed = TRUE]
    /\ UNCHANGED <<library, hist, client>>

\* What tls.LoadX509KeyPair and net.Listen can come to: the certificate is
\* read only with SSL, and an address is opened once at a time.
StartOutcomes ==
    {"listenError"} \cup (IF srv.SSL THEN {"certError"} ELSE {})
                   \cup (IF srv.open = {} THEN {"listening"} ELSE {})

\* A start-up whose error paths return without startWG.Done().
ListenForgettingDone(g) ==
    /\ ~srv.crashed
    /\ serveGoroutine[g].pc = "listen"
    /\ \E outcome \in StartOutcomes :
         IF outcome = "listening"
         THEN /\ srv' = [srv EXCEPT !.open = @ \cup {g}]
              /\ serveGoroutine' = [serveGoroutine EXCEPT ![g].pc = "store"]
         ELSE /\ serveGoroutine' = [serveGoroutine EXCEPT
                                       ![g].pc = "cancel", ![g].reason = outcome]
              /\ UNCHANGED srv
    /\ UNCHANGED <<library, hist, client>>

\* Lines 197-202 with 217-225 or 236-266: the certificate is loaded (SSL)
\* and the address opened; an error calls startWG.Done() and returns.
\* `dones` counts the startWG.Done() calls of the goroutine.
Listen(g) ==
    /\ ~srv.crashed
    /\ serveGoroutine[g].pc = "listen"
    /\ \E outcome \in StartOutcomes :
         IF outcome = "listening"
         THEN /\ srv' = [srv EXCEPT !.open = @ \cup {g}]
              /\ serveGoroutine' = [serveGoroutine EXCEPT ![g].pc = "store"]
         ELSE /\ srv' = [srv EXCEPT !.startWG = @ - 1]
              /\ serveGoroutine' = [serveGoroutine EXCEPT
                                       ![g] = [pc |-> "cancel", reason |-> outcome,
                                               dones |-> @.dones + 1]]
    /\ UNCHANGED <<library, hist, client>>

\* Line 227 or 269: srv.listener = lsn.
StoreListener(g) ==
    /\ ~srv.crashed
    /\ serveGoroutine[g].pc = "store"
    /\ srv' = [srv EXCEPT !.listener = g]
    /\ serveGoroutine' = [serveGoroutine EXCEPT ![g].pc = "started"]
    /\ UNCHANGED <<library, hist, client>>

\* Line 229 or 271: srv.startWG.Done().
StartDone(g) ==
    /\ ~srv.crashed
    /\ serveGoroutine[g].pc = "started"
    /\ srv' = [srv EXCEPT !.startWG = @ - 1]
    /\ serveGoroutine' = [serveGoroutine EXCEPT ![g].pc = "serve", ![g].dones = @ + 1]
    /\ UNCHANGED <<library, hist, client>>

\* Line 230 or 272: httpSrv.Serve(lsn) returns once the listener is closed,
\* with the error of the closed listener.
ServeEnds(g) ==
    /\ ~srv.crashed
    /\ serveGoroutine[g].pc = "serve"
    /\ g \notin srv.open
    /\ serveGoroutine' = [serveGoroutine EXCEPT
                             ![g].pc = "cancel", ![g].reason = "closed"]
    /\ UNCHANGED <<library, hist, srv, client>>

\* Lines 204-212: the reason is logged and srv.cancelFunc() called.
Cancel(g) ==
    /\ ~srv.crashed
    /\ serveGoroutine[g].pc = "cancel"
    /\ srv' = [srv EXCEPT !.ctx = "done"]
    /\ serveGoroutine' = [serveGoroutine EXCEPT ![g].pc = "ended"]
    /\ UNCHANGED <<library, hist, client>>

GoroutineStep ==
    \E g \in DOMAIN serveGoroutine :
        \/ ReadTemplates(g)
        \/ Listen(g)
        \/ StoreListener(g)
        \/ StartDone(g)
        \/ ServeEnds(g)
        \/ Cancel(g)

NextServer ==
    \/ \E c \in Clients : ServeCall(c)
    \/ \E c \in Clients : ServeReturn(c)
    \/ \E c \in Clients : StopCall(c)
    \/ \E c \in Clients : WaitCall(c)
    \/ \E c \in Clients : WaitReturn(c)
    \/ \E g \in DOMAIN serveGoroutine : ReadTemplates(g)
    \/ \E g \in DOMAIN serveGoroutine : Listen(g)
    \/ \E g \in DOMAIN serveGoroutine : StoreListener(g)
    \/ \E g \in DOMAIN serveGoroutine : StartDone(g)
    \/ \E g \in DOMAIN serveGoroutine : ServeEnds(g)
    \/ \E g \in DOMAIN serveGoroutine : Cancel(g)

\* The server under clients that call Serve, Stop and Wait in any order.
SpecServer == InitServer /\ [][NextServer]_vars

\* A goroutine that can run does run: the serving goroutine takes its steps
\* and a call that is no longer blocked returns.
FairServer ==
    /\ WF_vars(GoroutineStep)
    /\ \A c \in Clients : WF_vars(ServeReturn(c)) /\ WF_vars(WaitReturn(c))

SpecServerFair == InitServer /\ [][NextServer]_vars /\ FairServer

NextCleanup == CleanUpDatabaseCall

NextSearch ==
    \/ \E path \in AllRoots \X (1..3) : AddMediaWhole(path)
    \/ \E q \in Queries : SearchCall(q)

\* A library is filled file by file and then searched.
SpecSearch == InitSearch /\ [][NextSearch]_vars

NextCatalog ==
    \/ \E c \in Callers, path \in AllRoots \X (1..3) : AddMediaCall(c, path)
    \/ \E c \in Callers : AddMediaSelect(c)
    \/ \E c \in Callers : AddMediaAlbum(c)
    \/ \E c \in Callers : AddMediaArtist(c)
    \/ \E c \in Callers : AddMediaTrack(c)
    \/ \E path \in AllRoots \X (1..3) : FileDeleted(path)
    \/ \E path \in AllRoots \X (1..3) : WatcherRemove(path)
    \/ CleanUpTracks
    \/ CleanUpAlbums
    \/ CleanUpArtists

\* The catalog under its concurrent clients.
SpecCatalog == InitCatalog /\ [][NextCatalog]_vars

\* cleanUpDatabase called once and again on every stored catalog.
SpecCleanup == InitCleanup /\ [][NextCleanup]_vars

----------------------------------------------------------------------------
(* Properties.                                                             *)

Running(w) == walker[w].state \in {"walking", "sleeping"}

Roots == Range(paths)

WalkersOf(s) == {<<s, r>> : r \in Roots}

Joined(s) ==
    /\ hist.started[s] = Len(paths)
    /\ \A w \in WalkersOf(s) :
         /\ walker[w].state = "done"
         /\ walker[w].pos > Len(fs[w[2]])
         /\ hist.w[w].doneCalls = 1

Throttling ==
    /\ ~LibraryFastScan
    /\ ScanConfig.FilesPerOperation > 0
    /\ ScanConfig.SleepPerOperation > 0

\* C1: walkers started by two different Scan() calls are never running at
\* the same time.
C1_GenerationsNeverOverlap ==
    \A w1, w2 \in WalkerIds : Running(w1) /\ Running(w2) => w1[1] = w2[1]

\* C2: when a Scan() call has returned, every walker it spawned (one per
\* configured root) has finished its traversal and called Done once, and its
\* cleanUpDatabase has run.
C2_ScanReturnsAfterWalkersAndCleanup ==
    \A s \in Scans : pc[s] = "returned" => Joined(s) /\ hist.cleanups[s] = 1

\* A Scan() has returned while the other call is still in flight.
C2_Witness ==
    \E s, s2 \in Scans :
        /\ pc[s] = "returned"
        /\ pc[s2] \notin {"idle", "returned"}
        /\ \A w \in WalkersOf(s) : hist.w[w].visited # {}

\* C3: a Scan() call made while another is in flight starts its walkers only
\* once the walkers of the other call have completed, and it starts exactly
\* one walker per configured root.
C3_QueuedScanStartsFreshGeneration ==
    \A s \in Scans :
        /\ pc[s] = "spawn" => \A w \in WalkerIds : w[1] # s => ~Running(w)
        /\ pc[s] \in {"joinRLock", "joinWait", "joinRUnlock", "cleanup", "returned"}
             => hist.started[s] = Len(paths)

\* C4: within each Scan() call cleanUpDatabase runs exactly once, before the
\* call returns, and only after every walker of that call has called Done.
C4_CleanupOnceAfterJoin ==
    \A s \in Scans :
        /\ hist.cleanups[s] <= 1
        /\ hist.cleanups[s] = 1 <=> pc[s] = "returned"
        /\ pc[s] \in {"cleanup", "returned"} => Joined(s)

\* A Scan() is about to run its clean-up, all its walkers joined.
C4_Witness ==
    \E s \in Scans :
        /\ pc[s] = "cleanup"
        /\ hist.cleanups[s] = 0
        /\ \E w \in WalkersOf(s) : Cardinality(hist.w[w].visited) > 1

FailingRoot(r) == fs[r][1].err # "none"

\* C5: a walker whose root cannot be walked still ends with one Done, the
\* walkers of the other roots of that Scan() still visit all their entries,
\* and the Scan() that returns has run its clean-up.
C5_FailingRootDegradesOnlyItself ==
    \A s \in Scans : \A r \in Roots :
        FailingRoot(r) =>
            /\ hist.w[<<s, r>>].doneCalls <= 1
            /\ walker[<<s, r>>].state = "done" => hist.w[<<s, r>>].doneCalls = 1
            /\ \A r2 \in Roots \ {r} :
                 walker[<<s, r2>>].state = "done" =>
                     /\ hist.w[<<s, r2>>].visited = Visible(fs[r2])
                     /\ hist.w[<<s, r2>>].doneCalls = 1
            /\ pc[s] = "returned" => Joined(s) /\ hist.cleanups[s] = 1

\* A Scan() over a missing root and a directory has returned.
C5_Witness ==
    \E s \in Scans : \E r, r2 \in Roots :
        /\ fs[r] = MissingRoot
        /\ fs[r2] = SmallDir
        /\ pc[s] = "returned"
        /\ hist.w[<<s, r>>].doneCalls = 1
        /\ hist.w[<<s, r2>>].visited = {1, 2}

\* C6: no failure on one entry ends a walk: a walker that has finished has
\* been handed every entry filepath.Walk can reach under its root.
C6_WalkVisitsEveryEntry ==
    \A w \in WalkerIds :
        walker[w].state = "done" => hist.w[w].visited = Visible(fs[w[2]])

\* A finished walk that met an entry reported with an error, an AddMedia
\* that failed and a Watch that failed, and went on to a later entry.
C6_Witness ==
    \E w \in WalkerIds :
        LET t == fs[w[2]]
            h == hist.w[w]
        IN  /\ walker[w].state = "done"
            /\ \E i, j, k, l \in h.visited :
                 /\ i < l /\ j < l /\ k < l
                 /\ t[i].err # "none"
                 /\ j \in h.addMedia /\ <<w[2], j>> \notin TrackPaths
                 /\ t[k].kind = "dir" /\ t[k].err = "none"
                 /\ watch = "active" /\ <<w[2], k>> \notin watched

\* C7: an entry whose name has no supported extension is never handed to
\* AddMedia and is never in the catalog, whatever the throttling settings.
C7_UnsupportedNeverAdded ==
    /\ \A w \in WalkerIds : \A i \in hist.w[w].addMedia : fs[w[2]][i].media
    /\ \A tr \in TrackPaths : fs[tr[1]][tr[2]].media

\* A throttled Scan() has returned having visited an unsupported file and
\* added a supported one.
C7_Witness ==
    \E s \in Scans : \E w \in WalkersOf(s) :
        /\ pc[s] = "returned"
        /\ Throttling
        /\ hist.w[w].sleeps > 0
        /\ \E i \in hist.w[w].visited :
             fs[w[2]][i].kind = "file" /\ ~fs[w[2]][i].media /\ fs[w[2]][i].err = "none"
        /\ TrackPaths # {}

\* C8: only regular files are handed to AddMedia, never a directory.
C8_OnlyRegularFilesAdded ==
    \A w \in WalkerIds : \A i \in hist.w[w].addMedia : fs[w[2]][i].kind = "file"

\* C9, as stated: a walker that has processed more than N regular files
\* slept between its Nth and its (N+1)th file.
C9_PauseBetweenNthAndNextFile ==
    Throttling =>
        \A w \in WalkerIds :
            hist.w[w].files > ScanConfig.FilesPerOperation
                => ScanConfig.FilesPerOperation \in hist.w[w].sleptAfterFile

\* C9, amended: the counter counts every entry visited without an error,
\* directories and unsupported files included.  The walker sleeps exactly
\* after every Nth such entry, so between the Nth and the (N+1)th, and the
\* counter holds the entries counted since the last sleep.
C9_PauseAfterEveryNthEntry ==
    Throttling =>
        \A w \in WalkerIds :
            LET N == ScanConfig.FilesPerOperation
                h == hist.w[w]
            IN  /\ \A c \in 1..h.counted :
                     c \in h.sleptAfter <=> c % N = 0
                /\ h.counted > N => N \in h.sleptAfter
                /\ walker[w].state = "sleeping" =>
                     walker[w].scannedFiles = N /\ h.counted % N = 0
                /\ walker[w].state \in {"walking", "done"} =>
                     walker[w].scannedFiles = h.counted % N

\* A walker over a tree of directories and files of both sorts has slept
\* after its Nth entry and gone on to the next.
C9_Witness ==
    /\ Throttling
    /\ \E w \in WalkerIds :
         LET t == fs[w[2]]
             h == hist.w[w]
         IN  /\ h.counted > ScanConfig.FilesPerOperation
             /\ ScanConfig.FilesPerOperation \in h.sleptAfter
             /\ walker[w].scannedFiles = 1
             /\ \E i, j \in h.visited :
                  /\ t[i].kind = "dir"
                  /\ t[j].kind = "file" /\ ~t[j].media

\* C10: in fast mode nothing sleeps: no Scan() pauses for InitialWait and no
\* walker pauses for SleepPerOperation.
C10_FastModeNeverSleeps ==
    LibraryFastScan =>
        /\ \A s \in Scans : hist.initialSleeps[s] = 0 /\ pc[s] # "initialWait"
        /\ \A w \in WalkerIds : hist.w[w].sleeps = 0 /\ walker[w].state # "sleeping"

\* A fast-mode Scan() with every throttling setting on has returned after
\* walking more than FilesPerOperation entries.
C10_Witness ==
    /\ LibraryFastScan
    /\ ScanConfig.InitialWait > 0
    /\ ScanConfig.FilesPerOperation > 0
    /\ ScanConfig.SleepPerOperation > 0
    /\ \E s \in Scans : \E w \in WalkersOf(s) :
         /\ pc[s] = "returned"
         /\ hist.w[w].counted > ScanConfig.FilesPerOperation

\* C11: throttling is local to each walker.  A walker's counter holds the
\* entries that walker itself has counted since its last pause, it pauses
\* exactly at every Nth entry of its own, whatever the other walkers have
\* counted, and while it pauses every other walker that has an entry left
\* can take its next step.
C11_ThrottlingIsPerWalker ==
    Throttling =>
        \A w \in WalkerIds :
            LET N == ScanConfig.FilesPerOperation
                h == hist.w[w]
            IN  /\ walker[w].state = "sleeping" =>
                     /\ walker[w].scannedFiles = N
                     /\ h.counted > 0 /\ h.counted % N = 0
                     /\ \A w2 \in WalkerIds \ {w} :
                          walker[w2].state = "walking" /\ walker[w2].pos <= Len(fs[w2[2]])
                              => ENABLED WalkFunc(w2[1], w2[2])
                /\ walker[w].state \in {"walking", "done"} =>
                     walker[w].scannedFiles = h.counted % N
                /\ h.sleeps = h.counted \div N

\* One walker pauses after its Nth entry while the walker of the other root,
\* which has counted fewer entries since its own last pause, has entries left.
C11_Witness ==
    /\ Throttling
    /\ ScanConfig.FilesPerOperation = 2
    /\ \E w, w2 \in WalkerIds :
         /\ w[1] = w2[1] /\ w[2] # w2[2]
         /\ walker[w].state = "sleeping"
         /\ walker[w2].state = "walking"
         /\ walker[w2].scannedFiles = 1
         /\ hist.w[w2].counted % 2 = 1
         /\ walker[w2].pos <= Len(fs[w2[2]])

\* C18: a walker calls Watch exactly for the directories it visits without a
\* filesystem error while the watcher is active, so never for a file and never
\* when there is no watcher; a directory is registered only through such a
\* call; and whether the call fails or not, the entry is counted and the
\* walk goes on to every entry it can reach.
C18_WatchEveryDirectoryOnly ==
    hist.recordWatch =>
        /\ \A w \in WalkerIds :
             LET t == fs[w[2]]
                 h == hist.w[w]
                 clean == {i \in h.visited : t[i].err = "none"}
             IN  /\ h.watchCalls =
                      IF watch = "nil" THEN {}
                      ELSE {i \in clean : t[i].kind = "dir"}
                 /\ h.counted = Cardinality(clean)
                 /\ walker[w].state = "done" => h.visited = Visible(t)
        /\ \A d \in watched :
             \E w \in WalkerIds : w[2] = d[1] /\ d[2] \in hist.w[w].watchCalls

\* With the watcher active a finished walk has met a directory whose Watch
\* call failed, a directory whose call succeeded, and a file after them.
C18_Witness ==
    /\ watch = "active"
    /\ \E w \in WalkerIds :
         LET t == fs[w[2]]
             h == hist.w[w]
         IN  /\ walker[w].state = "done"
             /\ h.counted = 3
             /\ \E i, j \in h.watchCalls :
                  /\ <<w[2], i>> \notin watched
                  /\ <<w[2], j>> \in watched
                  /\ \E k \in h.visited : k > i /\ k > j /\ t[k].kind = "file"

\* The rows of `table` that a track row of `cat` whose file is on disk
\* references through `column`, matched on the table's `key`.
LinkedToExistingFile(cat, table, column, key) ==
    {row \in Rows(table) :
        \E t \in Rows(cat.tracks) : t[column] = row[key] /\ FileExists(fs, t.path)}

AfterFirstCleanup ==
    IF cleaner.runs = 1 THEN Tables(tracks, albums, artists) ELSE hist.before[2]

\* C12: cleanUpDatabase removes exactly the dangling records.  After it has
\* run, the albums left are those that a track of a file on disk references,
\* and the artists left are those that such a track references directly;
\* every other album and artist is gone, and no row is duplicated.
C12_CleanupRemovesExactlyDangling ==
    cleaner.runs >= 1 =>
        LET b == hist.before[1]
            after == AfterFirstCleanup
        IN  /\ Rows(after.albums) = LinkedToExistingFile(b, b.albums, "album", "path")
            /\ Rows(after.artists) = LinkedToExistingFile(b, b.artists, "artist", "name")
            /\ \A row \in Rows(after.albums) : after.albums[row] = b.albums[row]
            /\ \A row \in Rows(after.artists) : after.artists[row] = b.artists[row]

\* A clean-up has removed an album and an artist linked only to tracks whose
\* files are gone, among them an artist whose album is kept for the track of
\* another artist, and has kept an album and an artist of a file on disk.
C12_Witness ==
    /\ cleaner.runs = 1
    /\ LET b == hist.before[1]
       IN  /\ \E t \in Rows(b.tracks) :
                /\ ~FileExists(fs, t.path)
                /\ ~HasRow(artists, "name", t.artist)
                /\ HasRow(albums, "path", t.album)
           /\ \E al \in Rows(b.albums) :
                /\ HasRow(b.tracks, "album", al.path)
                /\ ~HasRow(albums, "path", al.path)
           /\ \E t \in Rows(tracks) :
                HasRow(albums, "path", t.album) /\ HasRow(artists, "name", t.artist)

\* C13: cleanUpDatabase is idempotent: run again with nothing changed in
\* between, it leaves the catalog as the first run left it.
C13_CleanupIdempotent ==
    cleaner.runs = 2 => Tables(tracks, albums, artists) = hist.before[2]

\* cleanUpDatabase has run twice, and its first run deleted tracks, albums
\* and artists.
C13_Witness ==
    /\ cleaner.runs = 2
    /\ Rows(hist.before[1].tracks) # Rows(hist.before[2].tracks)
    /\ Rows(hist.before[1].albums) # Rows(hist.before[2].albums)
    /\ Rows(hist.before[1].artists) # Rows(hist.before[2].artists)
    /\ Rows(tracks) # {}

\* The number of rows of `table` whose `column` holds `value`.
RowCount(table, column, value) ==
    BagCardinality(KeepRows(table, {row \in Rows(table) : row[column] = value}))

\* C14: whatever the interleaving of the AddMedia calls of the walkers and
\* of the watcher, no table holds two rows for one key: one artist row per
\* name, one album row per directory, one track row per path; and the
\* artist and the album of every track have exactly one row.
C14_OneRowPerNaturalKey ==
    /\ \A row \in Rows(artists) : RowCount(artists, "name", row.name) = 1
    /\ \A row \in Rows(albums) : RowCount(albums, "path", row.path) = 1
    /\ \A row \in Rows(tracks) :
         /\ RowCount(tracks, "path", row.path) = 1
         /\ RowCount(artists, "name", row.artist) = 1
         /\ RowCount(albums, "path", row.album) = 1

\* The walkers of the two roots each found the artist of its file missing
\* and both have passed their INSERT; the files of both are in the catalog
\* under one artist row.
C14_Witness ==
    /\ call["r1"].pc = "track" /\ call["r1"].newArtist
    /\ call["watcher"].pc = "track" /\ call["watcher"].newAlbum
    /\ call["watcher"].path[1] = "r1" /\ call["watcher"].path # call["r1"].path
    /\ \E t \in Rows(tracks) :
         /\ t.path[1] = "r2"
         /\ t.artist = ArtistRow(fs, tags, call["r1"].path).name
         /\ RowCount(artists, "name", t.artist) = 1

\* C15: in every state of the catalog, under AddMedia calls, removals
\* reported by the watcher and clean-up passes interleaved in any way, the
\* album and the artist of every track row are rows of their tables.
C15_ReferentialIntegrity ==
    \A row \in Rows(tracks) :
        /\ HasRow(albums, "path", row.album)
        /\ HasRow(artists, "name", row.artist)

\* A clean-up pass running beside an AddMedia call has deleted the album
\* that call had created or found, before the call's track INSERT, while
\* the catalog holds another track.
C15_Witness ==
    /\ cleaner.pc # "idle"
    /\ Rows(tracks) # {}
    /\ \E c \in Callers :
         /\ call[c].pc = "track"
         /\ ~HasRow(albums, "path", AlbumRow(fs, tags, call[c].path).path)
    /\ \E path \in AllRoots \X (1..3) :
         path[2] <= Len(fs[path[1]]) /\ ~FileExists(fs, path) /\ path \notin TrackPaths

Rescans == {s \in Scans \ {1} : pc[s] = "returned"}

\* C16, as stated: a Scan() made after another over the unchanged tree
\* leaves the track, album and artist rows the first one left.
C16_RescanLeavesSameRows ==
    \A s \in Rescans : Tables(tracks, albums, artists) = hist.before[s - 1]

\* C16, amended: a file whose AddMedia failed in the first Scan() and
\* succeeds in the second gains its rows in the second.  The second Scan()
\* keeps every row the first one left, adds rows only for paths that had
\* none, leaves one row per track path, album path and artist name, and
\* leaves the very same tables when it adds no path.
C16_RescanKeepsRowsAddsMissed ==
    \A s \in Rescans :
        LET b == hist.before[s - 1]
            pathsBefore == {row.path : row \in Rows(b.tracks)}
        IN  /\ \A row \in Rows(b.tracks) : CopiesIn(row, tracks) = 1
            /\ \A row \in Rows(b.albums) : CopiesIn(row, albums) = 1
            /\ \A row \in Rows(b.artists) : CopiesIn(row, artists) = 1
            /\ \A row \in Rows(tracks) : RowCount(tracks, "path", row.path) = 1
            /\ \A row \in Rows(albums) : RowCount(albums, "path", row.path) = 1
            /\ \A row \in Rows(artists) : RowCount(artists, "name", row.name) = 1
            /\ TrackPaths \subseteq pathsBefore \cup
                    UNION {{<<w[2], i>> : i \in hist.w[w].addMedia} : w \in WalkersOf(s)}
            /\ TrackPaths = pathsBefore => Tables(tracks, albums, artists) = b

\* A second Scan() has handed to AddMedia a path the first had added, and
\* has left the tables as they were.
C16_Witness ==
    \E s \in Rescans :
        LET b == hist.before[s - 1]
        IN  /\ Tables(tracks, albums, artists) = b
            /\ \E w \in WalkersOf(s) : \E i \in hist.w[w].addMedia :
                 HasRow(b.tracks, "path", <<w[2], i>>)

SameLetter(c, d) == c = d \/ {c, d} = {"a", "A"}

\* q is in name at some offset, letter for letter, whatever their case.
ContainsIgnoringCase(name, q) ==
    \E off \in 0..(Len(name) - Len(q)) :
        \A i \in 1..Len(q) : SameLetter(name[off + i], q[i])

AlbumOf(t) == CHOOSE al \in Rows(albums) : al.path = t.album

MatchingTracks(q) ==
    {t \in Rows(tracks) :
        \/ ContainsIgnoringCase(t.name, q)
        \/ ContainsIgnoringCase(AlbumOf(t).name, q)
        \/ ContainsIgnoringCase(t.artist, q)}

\* C17: Search(query) returns exactly the tracks whose title, album name or
\* artist name contains the query, the case of the letters ignored, one
\* result per such track, and an empty sequence when there is none.
C17_SearchReturnsMatchingTracks ==
    query.pc = "returned" =>
        /\ Len(results) = Cardinality(MatchingTracks(query.text))
        /\ \A t \in MatchingTracks(query.text) :
             \E i \in 1..Len(results) :
                 results[i] = [id |-> t.path, title |-> t.name,
                               album |-> AlbumOf(t).name, artist |-> t.artist]
        /\ \A i \in 1..Len(results) :
             \E t \in MatchingTracks(query.text) : results[i].id = t.path
        /\ MatchingTracks(query.text) = {} => results = <<>>

\* TestSearchUrl: of three tracks, the two of one album are returned for the
\* name of the album spelt in another case, which nothing else has.
C17_Witness ==
    /\ query = [pc |-> "returned", text |-> <<"a", "n">>]
    /\ Cardinality(Rows(tracks)) = 3
    /\ Len(results) = 2
    /\ \A i \in 1..2 : results[i].album = <<"A", "n">>

\* C19, as stated: every Serve call on a server after the first panics.
C19_SecondServePanics ==
    \A i \in 2..Len(hist.server.serveLog) : hist.server.serveLog[i] = "panicked"

\* C20: once Serve has started the server, Stop leaves no listener open; the
\* context is then cancelled in the end, and whoever is blocked in Wait
\* returns.  The context is cancelled as well when start-up failed.
C20_StopLetsWaitReturn ==
    /\ [](srv.mutex = "none" /\ srv.listener = 0 => srv.open = {})
    /\ hist.server.stopped ~> srv.ctx = "done"
    /\ (\E g \in DOMAIN serveGoroutine : serveGoroutine[g].pc = "cancel")
         ~> srv.ctx = "done"
    /\ \A c \in Clients :
         (hist.server.stopped /\ client[c].pc = "waiting") ~> client[c].pc = "idle"

\* TestStartAndStop: Serve has put a goroutine to serving, Stop was called,
\* and a Wait has returned since.
C20_Witness ==
    /\ hist.server.waited
    /\ hist.server.serveLog = <<"started">>
    /\ serveGoroutine[1] = [pc |-> "ended", reason |-> "closed", dones |-> 1]
    /\ srv.ctx = "done"
    /\ srv.open = {}

\* C21: cleanUpDatabase never executes while a walker goroutine, started by
\* whichever Scan() call, is running.
C21_CleanupNeverDuringWalk ==
    [][\A s \in Scans :
          hist'.cleanups[s] # hist.cleanups[s] => \A w \in WalkerIds : ~Running(w)]_vars

StartUpErrors == {"certError", "listenError"}

\* The goroutine has stored its listener, or has failed to start.
StartUpOver(g) ==
    \/ serveGoroutine[g].pc = "serve" /\ srv.listener = g /\ g \in srv.open
    \/ serveGoroutine[g].pc \in {"cancel", "ended"}
          /\ serveGoroutine[g].reason \in StartUpErrors

\* C22: Serve returns only once the goroutine it started has stored the
\* opened listener or has failed to start; a goroutine calls startWG.Done
\* at most once, and exactly once by the time its start-up is over, with or
\* without SSL and whatever the outcome; the counter is never negative; and
\* a Serve that waits returns in the end, unless a panic ends the process.
C22_ServeReturnsAfterStartUp ==
    /\ [][\A c \in Clients :
            client[c].pc = "startWait" /\ client'[c].pc = "idle"
                => StartUpOver(Len(serveGoroutine))]_vars
    /\ [](\A g \in DOMAIN serveGoroutine :
            /\ serveGoroutine[g].dones <= 1
            /\ serveGoroutine[g].pc \in {"serve", "cancel", "ended"}
                 <=> serveGoroutine[g].dones = 1)
    /\ [](srv.startWG \in {0, 1})
    /\ \A c \in Clients :
         client[c].pc = "startWait" ~> (client[c].pc = "idle" \/ srv.crashed)

\* With SSL, Serve has returned and the goroutine serves on the listener it
\* stored, having called startWG.Done once.
C22_Witness ==
    /\ srv.SSL
    /\ srv.mutex = "none"
    /\ hist.server.serveLog = <<"started">>
    /\ srv.listener = 1
    /\ serveGoroutine[1] = [pc |-> "serve", reason |-> "nil", dones |-> 1]

\* C23: every one of the concurrent Scan() calls returns in the end, the
\* walkers' traversals being finite.
C23_EveryScanReturns == \A s \in Scans : <>(pc[s] = "returned")

\* Both concurrent calls have returned, each after its own walkers walked
\* every root.
C23_Witness ==
    /\ \A s \in Scans : pc[s] = "returned" /\ hist.started[s] = Len(paths)
    /\ \A w \in WalkerIds : hist.w[w].visited # {}
    /\ waitScanLock = [readers |-> {}, rwait |-> {}, pending |-> NoScan,
                       writer |-> NoScan]
    /\ walkWG = 0

\* The call is inside walkWG.Wait(): its RLock has returned.
InWait(s) == pc[s] \in {"gateWait", "joinWait"} /\ s \in waitScanLock.readers

\* C24: walkWG.Add is called holding the write side of waitScanLock, the
\* read side is held only around walkWG.Wait, and no call is inside Wait
\* while another is at its Add; the counter is the number of walkers started
\* and not finished, so it is never negative.
C24_JoinCounterUsedSafely ==
    /\ \A s \in Scans :
         pc[s] = "spawn" =>
             /\ waitScanLock.writer = s
             /\ waitScanLock.readers = {}
             /\ \A other \in Scans : ~InWait(other)
    /\ \A s \in waitScanLock.readers :
         pc[s] \in {"gateWait", "gateRUnlock", "joinWait", "joinRUnlock"}
    /\ walkWG = Cardinality({w \in WalkerIds : Running(w)})
    /\ walkWG >= 0

\* A call has added a walker and is still at its loop, while the other call
\* has called RLock and is kept out of Wait.
C24_Witness ==
    \E s, other \in Scans :
        /\ pc[s] = "spawn"
        /\ walkWG > 0
        /\ pc[other] \in {"gateWait", "joinWait"}
        /\ other \in waitScanLock.rwait

====
